---- MODULE Spec2Model ----
(***************************************************************************)
(* FastLogger: the SPSC ring buffer (SPSCQueue), the per-thread queues and  *)
(* their manager (ThreadScopedQueueManager), the logger facade (FastLogger) *)
(* and the drain loop (LogManager).                                         *)
(*                                                                          *)
(* Two levels of granularity are used.  SpecQ runs one producer and one     *)
(* consumer on a single SPSCQueue, one atomic load or store per step.       *)
(* Spec runs the whole logger: producer threads, loggers, managers and the  *)
(* drain loop, with one Enqueue or Dequeue per step.  SpecEnc, SpecFmt and  *)
(* SpecSites follow single WriteLog calls byte by byte: the encoding of the *)
(* arguments into the LogMessage payload, the formatter handle, and the     *)
(* decoding and rendering by LogFormatter.                                  *)
(***************************************************************************)
EXTENDS Naturals, Integers, Sequences, FiniteSets, TLC

\* ------------------------------------------------------------------ bounds

\* QueueSize = 2^QueueBits slots (the code's default is 1024 = 2^10).
QueueBits == 2

\* Enqueue calls of the SpecQ producer beyond the C-1 the buffer can hold.
ExtraEnq == 4

\* Log calls made by each producer thread in Spec.
MaxCalls == 2

\* sizeof(LogMessage::_mDataBuffer), the payload capacity (the code's is 1024).
PayloadSize == 4

\* The longest string argument and the longest format string, in characters,
\* and the largest number of arguments of a WriteLog call.
MaxStrLen == 2

MaxFormatLen == 5

MaxArgs == 2

\* ------------------------------------------------------------- LogLevel

DEBUG == 0
INFO == 1
ERROR == 2
FATAL == 3

Levels == {DEBUG, INFO, ERROR, FATAL}

\* The test of Log: __logLevel >= _mLogLevel.
LevelPassesStrict(logLevel, threshold) == logLevel > threshold

LevelPasses(logLevel, threshold) == logLevel >= threshold

\* ------------------------------------------------------- SPSCQueue (pure)

RECURSIVE Pow2(_)
Pow2(n) == IF n = 0 THEN 1 ELSE 2 * Pow2(n - 1)

QueueSize == Pow2(QueueBits)

\* a & b on naturals
RECURSIVE BitAnd(_, _)
BitAnd(a, b) ==
  IF a = 0 \/ b = 0 THEN 0
  ELSE (a % 2) * (b % 2) + 2 * BitAnd(a \div 2, b \div 2)

kIndexMask == QueueSize - 1

getNextIndexNoWrap(index) == IF index + 1 > kIndexMask THEN index ELSE index + 1

getNextIndex(index) == BitAnd(index + 1, kIndexMask)

\* A slot that was never constructed.
Uninit == 0

\* SPSCQueue's fields after construction: _mHead{0}, _mTail{0}, and slots that
\* hold what T's default constructor leaves (uninit).
NewQueue(uninit) ==
  [mDataBuffer |-> [i \in 0 .. QueueSize - 1 |-> uninit], mHead |-> 0, mTail |-> 0]

\* The loop condition of Enqueue's busy wait.
QueueFullNever(nextWriteIndex, head) == FALSE

QueueFull(nextWriteIndex, head) == nextWriteIndex = head

IsEmptyNever(q) == FALSE

IsEmpty(q) == q.mHead = q.mTail

\* Enqueue past its busy wait: construct the slot, publish the tail.
QEnqueue(q, data) ==
  [q EXCEPT !.mDataBuffer[q.mTail] = data, !.mTail = getNextIndex(q.mTail)]

\* The slot a successful Dequeue copies out.
QFrontNewest(q) == q.mDataBuffer[BitAnd(q.mTail + kIndexMask, kIndexMask)]

QFront(q) == q.mDataBuffer[q.mHead]

\* Dequeue on a non-empty queue: advance the head.
QDequeue(q) == [q EXCEPT !.mHead = getNextIndex(q.mHead)]

\* The published, unread slots of q, oldest first.
RECURSIVE QSlots(_, _)
QSlots(q, from) ==
  IF from = q.mTail THEN << >>
  ELSE <<q.mDataBuffer[from]>> \o QSlots(q, getNextIndex(from))

QContents(q) == QSlots(q, q.mHead)

\* ------------------------------------------------- threads and loggers

\* Producer threads.
Threads == {"A", "B"}

\* LogManager::_loggers in CreateLogger order; each FastLogger owns one
\* ThreadScopedQueueManager and one file stream.
LoggerSeq == <<"L1", "L2">>

Loggers == {LoggerSeq[i] : i \in 1 .. Len(LoggerSeq)}

\* The threads that run LoggingLoop: the thread StartLogging(true) starts and
\* the caller of StartLogging(false).
LoopExecutors == {"bg", "fg"}

\* A thread that calls ConsumeAndWriteLogs on a logger itself.
DirectCallers == {"dc"}

\* The threads that execute ConsumeAndWriteLogs.
Executors == LoopExecutors \cup DirectCallers

NoMgr == "none"
NoThread == "none"
Free == "free"

\* A LogMessage slot that was never written (LogMessage() = default).
NoMessage == [thr |-> NoThread, seq |-> 0, lvl |-> DEBUG, lg |-> NoMgr]

\* MessageQueue = SPSCQueue<LogMessage>
NewMessageQueue == NewQueue(NoMessage)

\* ------------------------------------- LogMessage: encoding the arguments

\* '\0', and the two characters of the placeholder "{}".
Nul == 0

LBrace == 123

RBrace == 125

SeqsUpTo(S, n) == UNION {[1 .. k -> S] : k \in 0 .. n}

\* The characters of format strings (a letter and the braces) and of string
\* arguments (a letter and '\0').
FormatChars == {97, LBrace, RBrace}

StringChars == {98, Nul}

\* Argument types: two fixed-width scalars, std::string and const char*.
ScalarTypes == {"bool", "uint16_t"}

StringTypes == {"string", "cstr"}

ArgTypes == ScalarTypes \cup StringTypes

\* sizeof(T) of a scalar type.
SizeOf(type) == IF type = "bool" THEN 1 ELSE 2

\* The values of each type.  A scalar is given by its object representation
\* (native byte order, low byte first); a std::string by its size() characters;
\* a const char* by the characters of the array it points to, which a '\0'
\* follows.
ValuesOf(type) ==
  IF type = "bool" THEN {<<0>>, <<1>>}
  ELSE IF type = "uint16_t" THEN {<<0, 0>>, <<44, 1>>}
  ELSE SeqsUpTo(StringChars, MaxStrLen)

\* The number a scalar's bytes stand for.
RECURSIVE ScalarValue(_)
ScalarValue(bytes) ==
  IF bytes = << >> THEN 0 ELSE Head(bytes) + 256 * ScalarValue(Tail(bytes))

\* strlen: the number of characters before the first '\0'.
RECURSIVE StrLen(_)
StrLen(chars) ==
  IF chars = << >> \/ Head(chars) = Nul THEN 0 ELSE 1 + StrLen(Tail(chars))

\* The bytes CopyData writes at __buffer for one argument; it returns __buffer
\* plus their number.
CopyData(arg) ==
  IF arg.type = "string" THEN arg.val \o <<Nul>>
  ELSE IF arg.type = "cstr" THEN SubSeq(arg.val, 1, StrLen(arg.val)) \o <<Nul>>
  ELSE arg.val

\* CopyArgs: each argument at the address the one before it returned.
RECURSIVE CopyArgs(_)
CopyArgs(args) ==
  IF args = << >> THEN << >> ELSE CopyData(Head(args)) \o CopyArgs(Tail(args))

\* The offset in _mDataBuffer at which CopyArgs writes the i-th argument.
WriteOffset(args, i) == 1 + Len(CopyArgs(SubSeq(args, 1, i - 1)))

\* The bytes the constructor of LogMessage writes from &_mDataBuffer[0] on: the
\* level, then the arguments.
Encoded(lvl, args) == <<lvl>> \o CopyArgs(args)

\* _mDataBuffer after the constructor has run on a slot that held `stale`.
DataBuffer(lvl, args, stale) ==
  [i \in 1 .. PayloadSize |->
     IF i <= Len(Encoded(lvl, args)) THEN Encoded(lvl, args)[i] ELSE stale]

\* The bytes the constructor writes past the end of _mDataBuffer.
Spill(lvl, args) == SubSeq(Encoded(lvl, args), PayloadSize + 1, Len(Encoded(lvl, args)))

\* ------------------------------------------- LogFormatter: decoding, Format

\* WriteLog deduces Args&&...: an lvalue argument gives a reference type.
Deduce(args) == [i \in 1 .. Len(args) |-> [type |-> args[i].type, ref |-> args[i].ref]]

\* &LogFormatter<FormatString, Args...>::instance: one object per instantiation.
Instance(formatString, cargs) == [mFormatString |-> formatString, cargs |-> cargs]

\* std::decay_t<CArgs>...
Decay(cargs) == [i \in 1 .. Len(cargs) |-> cargs[i].type]

\* The byte at __data + off; memory past what is modelled reads as '\0'.
ByteAt(mem, off) == IF off + 1 <= Len(mem) THEN mem[off + 1] ELSE Nul

\* std::string str(__data): the characters up to the first '\0'.
RECURSIVE ReadString(_, _)
ReadString(mem, off) ==
  IF ByteAt(mem, off) = Nul THEN << >>
  ELSE <<ByteAt(mem, off)>> \o ReadString(mem, off + 1)

\* What the stream receives: characters, and numbers in their text form.
Chars(s) == [i \in 1 .. Len(s) |-> [k |-> "chr", v |-> s[i]]]

Number(n) == <<[k |-> "num", v |-> n]>>

\* __data + str.size() + 1
StringNextNoTerminator(off, str) == off + Len(str)

StringNext(off, str) == off + Len(str) + 1

\* PrintData<T>: what is written to the stream for the argument at off, the value
\* read, and the address returned.
PrintData(type, mem, off) ==
  IF type \in StringTypes
    THEN LET str == ReadString(mem, off) IN
           [text |-> Chars(str), val |-> str, off |-> off, next |-> StringNext(off, str)]
    ELSE LET bytes == [i \in 1 .. SizeOf(type) |-> ByteAt(mem, off + i - 1)] IN
           [text |-> Number(ScalarValue(bytes)), val |-> bytes, off |-> off,
            next |-> off + SizeOf(type)]

\* strstr(__formatStr, "{}"): the index of the first placeholder, 0 if none.
RECURSIVE Placeholder(_, _)
Placeholder(formatStr, i) ==
  IF i >= Len(formatStr) THEN 0
  ELSE IF formatStr[i] = LBrace /\ formatStr[i + 1] = RBrace THEN i
  ELSE Placeholder(formatStr, i + 1)

\* placeholder + 2
AfterPlaceholderOne(formatStr, p) == SubSeq(formatStr, p + 1, Len(formatStr))

AfterPlaceholder(formatStr, p) == SubSeq(formatStr, p + 2, Len(formatStr))

\* Format<Args...>: what is written to the stream (out) and the arguments
\* decoded on the way (dec).
RECURSIVE Format(_, _, _, _)
Format(types, mem, off, formatStr) ==
  IF types = << >> THEN [out |-> Chars(formatStr), dec |-> << >>]
  ELSE LET p == Placeholder(formatStr, 1) IN
    IF p = 0 THEN [out |-> Chars(formatStr), dec |-> << >>]
    ELSE LET d == PrintData(Head(types), mem, off)
             r == Format(Tail(types), mem, d.next, AfterPlaceholder(formatStr, p))
         IN [out |-> Chars(SubSeq(formatStr, 1, p - 1)) \o d.text \o r.out,
             dec |-> <<d>> \o r.dec]

\* Evaluate(message._mDataBuffer + sizeof(LogLevel), oss)
Evaluate(formatter, mem) == Format(Decay(formatter.cargs), mem, 1, formatter.mFormatString)

\* The arguments of the calls: every value of every type, or one value of a
\* scalar and of a string type passed as an lvalue or as an rvalue.
CallArgs == {[type |-> ty, ref |-> FALSE, val |-> v] : <<ty, v>> \in
               UNION {{<<ty, v>> : v \in ValuesOf(ty)} : ty \in ArgTypes}}

SiteArgs ==
  {[type |-> ty, ref |-> r, val |-> IF ty = "bool" THEN <<1>> ELSE <<98>>] :
     ty \in {"bool", "string"}, r \in BOOLEAN}

NoFormatter == Instance(<< >>, << >>)

\* A default-constructed LogMessage.
NoLogMessage == [mFormatter |-> NoFormatter, mDataBuffer |-> [i \in 1 .. PayloadSize |-> Nul]]

\* ------------------------------------------------------------------ state

VARIABLES
  spsc,        \* SpecQ: the queue under test
  prod,        \* SpecQ: the producer's position and locals in Enqueue
  cons,        \* SpecQ: the consumer's position and locals in Dequeue
  enqueued,    \* SpecQ: values whose Enqueue has returned, in order
  dequeued,    \* SpecQ: values returned by successful Dequeue calls, in order
  nPublished,  \* SpecQ: number of stores to _mTail
  nConsumed,   \* SpecQ: number of stores to _mHead
  nCopied,     \* SpecQ: number of slots copied out by Dequeue
  logLevel,    \* FastLogger::_mLogLevel of each logger
  lastSet,     \* history: the level last given to SetLogLevel of each logger
  sink,        \* FastLogger::_mFileStream of each logger: the lines written
  registered,  \* ThreadScopedQueueManager::_mThreadScopedQueues of each logger
  mLock,       \* ThreadScopedQueueManager::_mLock of each logger: its holder
  tq,          \* each thread's thread_local sThreadScopedQueue._mMessageQueue
  tmgr,        \* each thread's sThreadScopedQueue._mThreadScopedQueueManager
  thr,         \* each producer thread's position and the Log call it is in
  calls,       \* history: the Log calls each thread has made
  keepLogging, \* LogManager::_mKeepLogging
  joinable,    \* LogManager::_loggingThread.joinable()
  loggerMutex, \* LogManager::_loggerMutex: its holder
  lp,          \* each executor's position and locals in LoggingLoop
  stopPc,      \* the position of the thread in StopLogging
  stopReturned,\* history: StopLogging has returned and no StartLogging began since
  aborted,     \* std::terminate was called
  wpc,         \* the position of the thread that calls WriteLog
  sites,       \* history: the WriteLog calls made, with their formatter handles
  logMessage,  \* the LogMessage constructed in the ring buffer slot
  spill,       \* the bytes written past the end of its _mDataBuffer   
  stream,      \* the line ConsumeAndWriteLogs rendered for the last message
  decoded      \* history: the arguments PrintData decoded for that line

qvars == <<spsc, prod, cons, enqueued, dequeued, nPublished, nConsumed, nCopied>>

lvars == <<logLevel, lastSet>>

tvars == <<tq, tmgr, thr, calls>>

mvars == <<keepLogging, joinable, loggerMutex, lp, stopPc, stopReturned, aborted>>

svars == <<lvars, sink, registered, mLock, tvars, mvars>>

wvars == <<wpc, sites, logMessage, spill, stream, decoded>>

vars == <<qvars, svars, wvars>>

MaxEnq == QueueSize - 1 + ExtraEnq

InitQ ==
  /\ spsc = NewQueue(Uninit)
  /\ prod = [pc |-> "idle", data |-> Uninit, writeIndex |-> 0, nextWriteIndex |-> 0]
  /\ cons = [pc |-> "idle", readIndex |-> 0, data |-> Uninit, ret |-> FALSE]
  /\ enqueued = << >>
  /\ dequeued = << >>
  /\ nPublished = 0
  /\ nConsumed = 0
  /\ nCopied = 0

\* --------------------------------------------- SPSCQueue::Enqueue, by step

\* The producer enters Enqueue with the next value: loads _mTail and computes
\* the next write index.
EnqueueCall ==
  /\ prod.pc = "idle"
  /\ nPublished < MaxEnq
  /\ prod' = [pc |-> "spin", data |-> nPublished + 1,
              writeIndex |-> spsc.mTail,
              nextWriteIndex |-> getNextIndex(spsc.mTail)]
  /\ UNCHANGED <<spsc, cons, enqueued, dequeued, nPublished, nConsumed, nCopied, svars, wvars>>

\* while (nextWriteIndex == _mHead.load()): the producer leaves the loop only
\* on a load of _mHead that differs.
EnqueueSpin ==
  /\ prod.pc = "spin"
  /\ ~QueueFull(prod.nextWriteIndex, spsc.mHead)
  /\ prod' = [prod EXCEPT !.pc = "write"]
  /\ UNCHANGED <<spsc, cons, enqueued, dequeued, nPublished, nConsumed, nCopied, svars, wvars>>

\* new (&_mDataBuffer[writeIndex]) T(...)
EnqueueWrite ==
  /\ prod.pc = "write"
  /\ spsc' = [spsc EXCEPT !.mDataBuffer[prod.writeIndex] = prod.data]
  /\ prod' = [prod EXCEPT !.pc = "publish"]
  /\ UNCHANGED <<cons, enqueued, dequeued, nPublished, nConsumed, nCopied, svars, wvars>>

\* _mTail.store(nextWriteIndex, release); Enqueue returns.
EnqueuePublish ==
  /\ prod.pc = "publish"
  /\ spsc' = [spsc EXCEPT !.mTail = prod.nextWriteIndex]
  /\ prod' = [prod EXCEPT !.pc = "idle"]
  /\ enqueued' = Append(enqueued, prod.data)
  /\ nPublished' = nPublished + 1
  /\ UNCHANGED <<cons, dequeued, nConsumed, nCopied, svars, wvars>>

\* --------------------------------------------- SPSCQueue::Dequeue, by step

\* if (IsEmpty()) return false; readIndex = _mHead.load().  _mHead is written
\* by the consumer only, so its two loads are one step with the load of _mTail.
DequeueCall ==
  /\ cons.pc = "idle"
  /\ IF IsEmpty(spsc)
       THEN cons' = [cons EXCEPT !.ret = FALSE]
       ELSE cons' = [cons EXCEPT !.pc = "copy", !.readIndex = spsc.mHead]
  /\ UNCHANGED <<spsc, prod, enqueued, dequeued, nPublished, nConsumed, nCopied, svars, wvars>>

\* memcpy(&data, &_mDataBuffer[readIndex], sizeof(T))
DequeueCopy ==
  /\ cons.pc = "copy"
  /\ cons' = [cons EXCEPT !.pc = "advance", !.data = spsc.mDataBuffer[cons.readIndex]]
  /\ nCopied' = nCopied + 1
  /\ UNCHANGED <<spsc, prod, enqueued, dequeued, nPublished, nConsumed, svars, wvars>>

\* _mHead.store(getNextIndex(readIndex), relaxed); return true.
DequeueAdvance ==
  /\ cons.pc = "advance"
  /\ spsc' = [spsc EXCEPT !.mHead = getNextIndex(cons.readIndex)]
  /\ cons' = [cons EXCEPT !.pc = "idle", !.ret = TRUE]
  /\ dequeued' = Append(dequeued, cons.data)
  /\ nConsumed' = nConsumed + 1
  /\ UNCHANGED <<prod, enqueued, nPublished, nCopied, svars, wvars>>

\* The store to _mHead is relaxed and nothing orders the memcpy before it: the
\* producer may see the new head before the slot has been copied.
DequeueAdvanceEarly ==
  /\ cons.pc = "copy"
  /\ spsc' = [spsc EXCEPT !.mHead = getNextIndex(cons.readIndex)]
  /\ cons' = [cons EXCEPT !.pc = "lateCopy"]
  /\ nConsumed' = nConsumed + 1
  /\ UNCHANGED <<prod, enqueued, dequeued, nPublished, nCopied, svars, wvars>>

\* The memcpy of a Dequeue whose head store went first; Dequeue returns true.
DequeueLateCopy ==
  /\ cons.pc = "lateCopy"
  /\ cons' = [cons EXCEPT !.pc = "idle", !.ret = TRUE,
                          !.data = spsc.mDataBuffer[cons.readIndex]]
  /\ dequeued' = Append(dequeued, spsc.mDataBuffer[cons.readIndex])
  /\ nCopied' = nCopied + 1
  /\ UNCHANGED <<spsc, prod, enqueued, nPublished, nConsumed, svars, wvars>>

ProducerStep == EnqueueCall \/ EnqueueSpin \/ EnqueueWrite \/ EnqueuePublish

ConsumerStep ==
  DequeueCall \/ DequeueCopy \/ DequeueAdvance \/ DequeueAdvanceEarly \/ DequeueLateCopy

NextQ == ProducerStep \/ ConsumerStep

\* ------------------------------------------------------- the logger: Init

IdleThread == [pc |-> "idle", lg |-> NoMgr, lvl |-> DEBUG, seq |-> 0]

OffLoop == [pc |-> "off", idx |-> 0, todo |-> {}, cur |-> NoThread, snap |-> {}]

\* After LogManager's construction and one CreateLogger per logger: threshold
\* INFO, empty files, no queue registered, logging not started.
InitS ==
  /\ logLevel = [l \in Loggers |-> INFO]
  /\ lastSet = [l \in Loggers |-> INFO]
  /\ sink = [l \in Loggers |-> << >>]
  /\ registered = [l \in Loggers |-> {}]
  /\ mLock = [l \in Loggers |-> Free]
  /\ tq = [t \in Threads |-> NewMessageQueue]
  /\ tmgr = [t \in Threads |-> NoMgr]
  /\ thr = [t \in Threads |-> IdleThread]
  /\ calls = [t \in Threads |-> << >>]
  /\ keepLogging = FALSE
  /\ joinable = FALSE
  /\ loggerMutex = Free
  /\ lp = [e \in Executors |-> OffLoop]
  /\ stopPc = "idle"
  /\ stopReturned = FALSE
  /\ aborted = FALSE

InitW ==
  /\ wpc = "idle"
  /\ sites = << >>
  /\ logMessage = NoLogMessage
  /\ spill = << >>
  /\ stream = << >>
  /\ decoded = << >>

Init == InitQ /\ InitS /\ InitW

\* ------------------------------------------- FastLogger::Log, SetLogLevel

\* The message a Log call enqueues.  thr, seq and lg identify the call (the
\* calling thread, its call number, the logger it was made on); seq is 0 when
\* the calls are not recorded.
Message(t) == [thr |-> t, seq |-> thr[t].seq, lvl |-> thr[t].lvl, lg |-> thr[t].lg]

\* Thread t calls Log on logger l with level lvl: the level test, and for a
\* thread whose thread_local queue already exists, GetThreadScopedMessageQueue,
\* which returns that queue whatever manager it is given.
LogCall(t, l, lvl, tracked) ==
  /\ ~aborted
  /\ thr[t].pc = "idle"
  /\ tracked => Len(calls[t]) < MaxCalls
  /\ calls' = IF tracked
                THEN [calls EXCEPT ![t] =
                        Append(@, [lg |-> l, lvl |-> lvl, threshold |-> lastSet[l]])]
                ELSE calls
  /\ thr' = IF LevelPasses(lvl, logLevel[l])
              THEN [thr EXCEPT ![t] =
                      [pc |-> IF tmgr[t] = NoMgr THEN "getq" ELSE "enq",
                       lg |-> l, lvl |-> lvl,
                       seq |-> IF tracked THEN Len(calls[t]) + 1 ELSE 0]]
              ELSE thr
  /\ UNCHANGED <<qvars, wvars, lvars, sink, registered, mLock, tq, tmgr, mvars>>

\* The thread's first pass through the thread_local declaration: the
\* ThreadScopedQueue is constructed with the manager of the logger of this call
\* and registers itself under that manager's mutex.
RegisterScopedQueue(t) ==
  /\ ~aborted
  /\ thr[t].pc = "getq"
  /\ mLock[thr[t].lg] = Free
  /\ registered' = [registered EXCEPT ![thr[t].lg] = @ \cup {t}]
  /\ tmgr' = [tmgr EXCEPT ![t] = thr[t].lg]
  /\ thr' = [thr EXCEPT ![t].pc = "enq"]
  /\ UNCHANGED <<qvars, wvars, lvars, sink, mLock, tq, calls, mvars>>

\* Enqueue on the thread's queue: waits while the queue is full, then writes the
\* slot and publishes it; Log returns.
EnqueueMessage(t) ==
  /\ ~aborted
  /\ thr[t].pc = "enq"
  /\ ~QueueFull(getNextIndex(tq[t].mTail), tq[t].mHead)
  /\ tq' = [tq EXCEPT ![t] = QEnqueue(@, Message(t))]
  /\ thr' = [thr EXCEPT ![t] = IdleThread]
  /\ UNCHANGED <<qvars, wvars, lvars, sink, registered, mLock, tmgr, calls, mvars>>

SetLogLevel(l, lvl) ==
  /\ ~aborted
  /\ logLevel' = [logLevel EXCEPT ![l] = lvl]
  /\ lastSet' = [lastSet EXCEPT ![l] = lvl]
  /\ UNCHANGED <<qvars, wvars, sink, registered, mLock, tvars, mvars>>

\* ------------------- thread exit: ~ThreadScopedQueue, UnRegisterThreadScopedQueue

\* A thread that owns a queue exits: the destructor of its thread_local queue
\* calls UnRegisterThreadScopedQueue, which tests IsEmpty.
ThreadExit(t) ==
  /\ ~aborted
  /\ thr[t].pc = "idle"
  /\ tmgr[t] # NoMgr
  /\ thr' = [thr EXCEPT ![t].pc =
               IF ~IsEmpty(tq[t]) THEN "unregSleep" ELSE "unregErase"]
  /\ UNCHANGED <<qvars, wvars, lvars, sink, registered, mLock, tq, tmgr, calls, mvars>>

\* The erase without the manager's mutex.
UnRegisterEraseNoLock(t) ==
  /\ ~aborted
  /\ thr[t].pc \in {"unregSleep", "unregErase"}
  /\ registered' = [registered EXCEPT ![tmgr[t]] = @ \ {t}]
  /\ tq' = [tq EXCEPT ![t] = NewMessageQueue]
  /\ thr' = [thr EXCEPT ![t].pc = "exited"]
  /\ UNCHANGED <<qvars, wvars, lvars, sink, mLock, tmgr, calls, mvars>>

\* After sleep(5), if the queue was not empty (the sleep returns whatever the
\* drainer did meanwhile): the erase under the manager's mutex; the destructor
\* then ends and the queue is gone with whatever it still held.
UnRegisterErase(t) ==
  /\ ~aborted
  /\ thr[t].pc \in {"unregSleep", "unregErase"}
  /\ mLock[tmgr[t]] = Free
  /\ registered' = [registered EXCEPT ![tmgr[t]] = @ \ {t}]
  /\ tq' = [tq EXCEPT ![t] = NewMessageQueue]
  /\ thr' = [thr EXCEPT ![t].pc = "exited"]
  /\ UNCHANGED <<qvars, wvars, lvars, sink, mLock, tmgr, calls, mvars>>

\* --------------------------------------- LogManager: StartLogging, StopLogging

\* StartLogging(true).  Assigning the new thread to _loggingThread while it is
\* still joinable calls std::terminate.
StartLoggingAsync ==
  /\ ~aborted
  /\ IF keepLogging
       THEN UNCHANGED <<keepLogging, joinable, lp, stopReturned, aborted>>
       ELSE /\ keepLogging' = TRUE
            /\ stopReturned' = FALSE
            /\ IF joinable
                 THEN aborted' = TRUE /\ UNCHANGED <<joinable, lp>>
                 ELSE /\ joinable' = TRUE
                      /\ lp' = [lp EXCEPT !["bg"].pc = "check"]
                      /\ UNCHANGED aborted
  /\ UNCHANGED <<qvars, wvars, lvars, sink, registered, mLock, tvars, loggerMutex, stopPc>>

\* StartLogging(false): the caller runs LoggingLoop itself.
StartLoggingSync ==
  /\ ~aborted
  /\ lp["fg"].pc = "off"
  /\ IF keepLogging
       THEN UNCHANGED <<keepLogging, lp, stopReturned>>
       ELSE /\ keepLogging' = TRUE
            /\ stopReturned' = FALSE
            /\ lp' = [lp EXCEPT !["fg"].pc = "check"]
  /\ UNCHANGED <<qvars, wvars, lvars, sink, registered, mLock, tvars, joinable, loggerMutex,
                 stopPc, aborted>>

\* StopLogging: clears the flag; joins only a joinable _loggingThread.
StopLoggingCall ==
  /\ ~aborted
  /\ stopPc = "idle"
  /\ keepLogging' = FALSE
  /\ IF joinable
       THEN stopPc' = "join" /\ UNCHANGED stopReturned
       ELSE stopReturned' = TRUE /\ UNCHANGED stopPc
  /\ UNCHANGED <<qvars, wvars, lvars, sink, registered, mLock, tvars, joinable, loggerMutex,
                 lp, aborted>>

\* _loggingThread.join() returns once the drain thread has left LoggingLoop.
StopLoggingJoin ==
  /\ ~aborted
  /\ stopPc = "join"
  /\ lp["bg"].pc = "off"
  /\ joinable' = FALSE
  /\ stopPc' = "idle"
  /\ stopReturned' = TRUE
  /\ UNCHANGED <<qvars, wvars, lvars, sink, registered, mLock, tvars, keepLogging, loggerMutex,
                 lp, aborted>>

\* ------------------------- LogManager::LoggingLoop, ConsumeAndWriteLogs

Range(f) == {f[i] : i \in DOMAIN f}

\* History: the messages of the Log calls on logger l that have returned.
Returned(t, i) == i < Len(calls[t]) \/ thr[t].pc \notin {"getq", "enq"}

CallMessage(t, i) ==
  [thr |-> t, seq |-> i, lvl |-> calls[t][i].lvl, lg |-> calls[t][i].lg]

ReturnedMessages(l) ==
  {CallMessage(t, i) : <<t, i>> \in
     {c \in Threads \X (1 .. MaxCalls) :
        /\ c[2] <= Len(calls[c[1]])
        /\ calls[c[1]][c[2]].lg = l
        /\ LevelPasses(calls[c[1]][c[2]].lvl, calls[c[1]][c[2]].threshold)
        /\ Returned(c[1], c[2])}}

\* while (_mKeepLogging.load())
LoopCheck(e) ==
  /\ ~aborted
  /\ lp[e].pc = "check"
  /\ lp' = [lp EXCEPT ![e].pc = IF keepLogging THEN "lock" ELSE "off"]
  /\ UNCHANGED <<qvars, wvars, lvars, sink, registered, mLock, tvars, keepLogging, joinable,
                 loggerMutex, stopPc, stopReturned, aborted>>

\* lock_guard lock(_loggerMutex); the iteration over _loggers begins.
LoopLock(e) ==
  /\ ~aborted
  /\ lp[e].pc = "lock"
  /\ loggerMutex = Free
  /\ loggerMutex' = e
  /\ lp' = [lp EXCEPT ![e].pc = "foreach", ![e].idx = 1]
  /\ UNCHANGED <<qvars, wvars, lvars, sink, registered, mLock, tvars, keepLogging, joinable,
                 stopPc, stopReturned, aborted>>

\* The queue the iteration over the unordered_set visits next, the queues todo
\* being left: any of them, or none when the iteration is over.
NextQueues(todo) == IF todo = {} THEN {NoThread} ELSE todo

\* ForEachQueue without the lock_guard.
ConsumeBeginNoLock(e, tracked) ==
  /\ ~aborted
  /\ lp[e].pc = "foreach"
  /\ lp[e].idx <= Len(LoggerSeq)
  /\ LET l == LoggerSeq[lp[e].idx] IN
       /\ mLock' = [mLock EXCEPT ![l] = e]
       /\ \E t \in NextQueues(registered[l]) :
            lp' = [lp EXCEPT ![e].pc = "drain", ![e].cur = t,
                             ![e].todo = registered[l] \ {t},
                             ![e].snap = IF tracked
                                           THEN ReturnedMessages(l) \ Range(sink[l])
                                           ELSE {}]
  /\ UNCHANGED <<qvars, wvars, lvars, sink, registered, tvars, keepLogging, joinable,
                 loggerMutex, stopPc, stopReturned, aborted>>

\* logger->ConsumeAndWriteLogs() enters ForEachQueue: takes the manager's mutex
\* and starts to iterate over the registered queues.  History (snap): the
\* messages logged on this logger whose Log call has returned and that are not
\* in its file yet; DequeueWrite strikes out what the pass writes.
ConsumeBegin(e, tracked) ==
  /\ ~aborted
  /\ lp[e].pc = "foreach"
  /\ lp[e].idx <= Len(LoggerSeq)
  /\ LET l == LoggerSeq[lp[e].idx] IN
       /\ mLock[l] = Free
       /\ mLock' = [mLock EXCEPT ![l] = e]
       /\ \E t \in NextQueues(registered[l]) :
            lp' = [lp EXCEPT ![e].pc = "drain", ![e].cur = t,
                             ![e].todo = registered[l] \ {t},
                             ![e].snap = IF tracked
                                           THEN ReturnedMessages(l) \ Range(sink[l])
                                           ELSE {}]
  /\ UNCHANGED <<qvars, wvars, lvars, sink, registered, tvars, keepLogging, joinable,
                 loggerMutex, stopPc, stopReturned, aborted>>

\* What the drainer appends to the file for a dequeued message.
SinkWrite(file, message, tracked) == IF tracked THEN Append(file, message) ELSE file

\* Dequeue returns true: the message is formatted and written to the file of the
\* logger being drained, and flushed.
DequeueWrite(e, tracked) ==
  /\ ~aborted
  /\ lp[e].pc = "drain"
  /\ lp[e].cur # NoThread
  /\ ~IsEmpty(tq[lp[e].cur])
  /\ sink' = [sink EXCEPT ![LoggerSeq[lp[e].idx]] =
                SinkWrite(@, QFront(tq[lp[e].cur]), tracked)]
  /\ tq' = [tq EXCEPT ![lp[e].cur] = QDequeue(@)]
  /\ lp' = [lp EXCEPT ![e].snap = @ \ {QFront(tq[lp[e].cur])}]
  /\ UNCHANGED <<qvars, wvars, lvars, registered, mLock, tmgr, thr, calls, keepLogging,
                 joinable, loggerMutex, stopPc, stopReturned, aborted>>

\* Dequeue returns false: the callback returns and the iteration moves on.
DequeueEmpty(e) ==
  /\ ~aborted
  /\ lp[e].pc = "drain"
  /\ lp[e].cur # NoThread
  /\ IsEmpty(tq[lp[e].cur])
  /\ \E t \in NextQueues(lp[e].todo) :
       lp' = [lp EXCEPT ![e].cur = t, ![e].todo = @ \ {t}]
  /\ UNCHANGED <<qvars, wvars, lvars, sink, registered, mLock, tvars, keepLogging, joinable,
                 loggerMutex, stopPc, stopReturned, aborted>>

\* ForEachQueue has visited every queue: the manager's mutex is released and
\* ConsumeAndWriteLogs returns.
ForEachEnd(e) ==
  /\ ~aborted
  /\ lp[e].pc = "drain"
  /\ lp[e].cur = NoThread
  /\ mLock' = [mLock EXCEPT ![LoggerSeq[lp[e].idx]] = Free]
  /\ lp' = [lp EXCEPT ![e].pc = "foreach", ![e].idx = @ + 1]
  /\ UNCHANGED <<qvars, wvars, lvars, sink, registered, tvars, keepLogging, joinable,
                 loggerMutex, stopPc, stopReturned, aborted>>

\* After the last logger: no logger has expired, so the erase removes nothing;
\* the 100 ms sleep; _loggerMutex is released at the end of the loop body.
LoopSleep(e) ==
  /\ ~aborted
  /\ lp[e].pc = "foreach"
  /\ lp[e].idx > Len(LoggerSeq)
  /\ loggerMutex' = Free
  /\ lp' = [lp EXCEPT ![e] = [OffLoop EXCEPT !.pc = "check"]]
  /\ UNCHANGED <<qvars, wvars, lvars, sink, registered, mLock, tvars, keepLogging, joinable,
                 stopPc, stopReturned, aborted>>

\* A thread other than the drain thread calls ConsumeAndWriteLogs on the i-th
\* logger.
DirectCall(e, i) ==
  /\ ~aborted
  /\ lp[e].pc = "off"
  /\ lp' = [lp EXCEPT ![e].pc = "foreach", ![e].idx = i]
  /\ UNCHANGED <<qvars, wvars, lvars, sink, registered, mLock, tvars, keepLogging, joinable,
                 loggerMutex, stopPc, stopReturned, aborted>>

\* ConsumeAndWriteLogs has returned to its caller.
DirectReturn(e) ==
  /\ ~aborted
  /\ lp[e].pc = "foreach"
  /\ lp' = [lp EXCEPT ![e] = OffLoop]
  /\ UNCHANGED <<qvars, wvars, lvars, sink, registered, mLock, tvars, keepLogging, joinable,
                 loggerMutex, stopPc, stopReturned, aborted>>

\* ------------------------------------------------------ the logger: Next

\* A producer thread logging on the loggers ls with the levels lvls.
Producer(t, ls, lvls, tracked) ==
  \/ \E l \in ls, lvl \in lvls : LogCall(t, l, lvl, tracked)
  \/ RegisterScopedQueue(t)
  \/ EnqueueMessage(t)

\* A producer thread ending.
Exit(t) ==
  \/ ThreadExit(t)
  \/ UnRegisterErase(t)

\* A direct caller of ConsumeAndWriteLogs; calls on consecutive loggers follow
\* each other with or without the return and the call between them.
DirectConsume(e, tracked) ==
  \/ \E i \in 1 .. Len(LoggerSeq) : DirectCall(e, i)
  \/ ConsumeBegin(e, tracked)
  \/ DequeueWrite(e, tracked)
  \/ DequeueEmpty(e)
  \/ ForEachEnd(e)
  \/ DirectReturn(e)

LoggingLoop(e, tracked) ==
  \/ LoopCheck(e)
  \/ LoopLock(e)
  \/ ConsumeBegin(e, tracked)
  \/ DequeueWrite(e, tracked)
  \/ DequeueEmpty(e)
  \/ ForEachEnd(e)
  \/ LoopSleep(e)

\* Spec: the producers log at level ERROR on both loggers and may exit; logging
\* is started asynchronously and runs on.
NextS ==
  \/ \E t \in Threads : Producer(t, Loggers, {ERROR}, TRUE)
  \/ \E t \in Threads : Exit(t)
  \/ LoggingLoop("bg", TRUE)
  \/ StartLoggingAsync

Spec == Init /\ [][NextS]_vars

\* SpecLevel: one producer logs at every level on the first logger while that
\* logger's threshold is changed, by the producer between its calls or by
\* another thread at any time.
NextLevel ==
  \/ \E lvl \in Levels : LogCall("A", LoggerSeq[1], lvl, TRUE)
  \/ RegisterScopedQueue("A")
  \/ EnqueueMessage("A")
  \/ \E lvl \in Levels : SetLogLevel(LoggerSeq[1], lvl)
  \/ LoggingLoop("bg", TRUE)
  \/ StartLoggingAsync

SpecLevel == Init /\ [][NextLevel]_vars

\* SpecStop: logging is started in either mode, stopped and started again while
\* the producers log.
NextStop ==
  \/ \E t \in Threads : Producer(t, Loggers, {ERROR}, TRUE)
  \/ \E e \in LoopExecutors : LoggingLoop(e, TRUE)
  \/ StartLoggingAsync
  \/ StartLoggingSync
  \/ StopLoggingCall
  \/ StopLoggingJoin

SpecStop == Init /\ [][NextStop]_vars

\* ------------------------------------------- WriteLog, one call at a time

\* WriteLog<FormatString>(logger, level, args...) takes the address of the
\* formatter instance of its call site and calls Log; the level is one that
\* passes the test of Log.
WriteLogCall(formats, argSet, maxSites) ==
  /\ ~aborted
  /\ wpc = "idle"
  /\ Len(sites) < maxSites
  /\ \E formatString \in formats, args \in SeqsUpTo(argSet, MaxArgs) :
       sites' = Append(sites, [formatString |-> formatString, args |-> args,
                               lvl |-> ERROR,
                               formatter |-> Instance(formatString, Deduce(args))])
  /\ wpc' = "log"
  /\ UNCHANGED <<qvars, svars, logMessage, spill, stream, decoded>>

\* Enqueue constructs the LogMessage in the slot at the tail: the formatter,
\* the level and the arguments one after the other, with no test of the space
\* left.  The slot held zeros (first revolution) or an older message.
EnqueueLogMessage ==
  /\ ~aborted
  /\ wpc = "log"
  /\ LET site == sites[Len(sites)] IN
       /\ \E stale \in StringChars :
            logMessage' = [mFormatter |-> site.formatter,
                           mDataBuffer |-> DataBuffer(site.lvl, site.args, stale)]
       /\ spill' = Spill(site.lvl, site.args)
  /\ wpc' = "queued"
  /\ UNCHANGED <<qvars, svars, sites, stream, decoded>>

\* ConsumeAndWriteLogs: Dequeue copies sizeof(LogMessage) bytes into the local
\* message; the level and Evaluate's output make the line.  What lies behind the
\* local message's buffer is other memory (here filled with zeros or with a
\* letter), read only when the encoding ran past the buffer.
RenderLogMessage ==
  /\ ~aborted
  /\ wpc = "queued"
  /\ \E byte \in StringChars :
       LET behind == [i \in 1 .. Len(spill) |-> byte]
           mem == logMessage.mDataBuffer \o behind
           r == Evaluate(logMessage.mFormatter, mem)
       IN /\ stream' = <<[k |-> "lvl", v |-> ByteAt(mem, 0)]>> \o r.out
          /\ decoded' = r.dec
  /\ wpc' = "idle"
  /\ UNCHANGED <<qvars, svars, sites, logMessage, spill>>

\* A format string of n placeholders.
Placeholders(n) == [i \in 1 .. 2 * n |-> IF i % 2 = 1 THEN LBrace ELSE RBrace]

\* SpecEnc: one call with any arguments, and with as many placeholders as the
\* most arguments a call has, or one fewer.
NextEnc ==
  \/ WriteLogCall({Placeholders(n) : n \in {MaxArgs - 1, MaxArgs}}, CallArgs, 1)
  \/ EnqueueLogMessage
  \/ RenderLogMessage

SpecEnc == Init /\ [][NextEnc]_vars

\* SpecFmt: one call with any format string.
NextFmt ==
  \/ WriteLogCall(SeqsUpTo(FormatChars, MaxFormatLen), SiteArgs, 1)
  \/ EnqueueLogMessage
  \/ RenderLogMessage

SpecFmt == Init /\ [][NextFmt]_vars

\* SpecSites: two calls, from two call sites or twice from one.
NextSites ==
  \/ WriteLogCall(SeqsUpTo(FormatChars, 1), SiteArgs, 2)
  \/ EnqueueLogMessage
  \/ RenderLogMessage

SpecSites == Init /\ [][NextSites]_vars

\* SpecDirect: a thread calls ConsumeAndWriteLogs on the loggers directly while
\* the drain thread runs; thread A logs on both loggers, thread B on the second.
NextDirect ==
  \/ Producer("A", Loggers, {ERROR}, TRUE)
  \/ Producer("B", {LoggerSeq[2]}, {ERROR}, TRUE)
  \/ LoggingLoop("bg", TRUE)
  \/ StartLoggingAsync
  \/ \E e \in DirectCallers : DirectConsume(e, TRUE)

SpecDirect == Init /\ [][NextDirect]_vars

\* LiveSpec: producers that never stop logging on the first logger (their calls
\* and the file contents are not recorded), with every started thread scheduled
\* again and again: the drain thread and a producer past its busy wait take
\* their next step, and a producer waiting for the manager's mutex gets it if it
\* is released again and again.
NextLive ==
  \/ \E t \in Threads : Producer(t, {LoggerSeq[1]}, {ERROR}, FALSE)
  \/ LoggingLoop("bg", FALSE)
  \/ StartLoggingAsync

LiveSpec ==
  /\ Init
  /\ [][NextLive]_vars
  /\ WF_vars(LoggingLoop("bg", FALSE))
  /\ \A t \in Threads : WF_vars(EnqueueMessage(t))
  /\ \A t \in Threads : SF_vars(RegisterScopedQueue(t))

SpecQ == Init /\ [][NextQ]_vars

\* The producer runs on its own thread and the consumer keeps calling Dequeue.
FairSpecQ == SpecQ /\ WF_vars(ProducerStep) /\ WF_vars(ConsumerStep)

\* ------------------------------------------------------- claims on SpecQ

IsPrefix(s, t) == Len(s) <= Len(t) /\ \A i \in 1 .. Len(s) : s[i] = t[i]

\* The slot the k-th enqueued value is written to.
SlotOf(k) == (k - 1) % QueueSize

\* C1: with one producer and one consumer interleaved step by step, the values
\* returned by successful Dequeue calls are a prefix of the values enqueued
\* (same order, none duplicated, skipped or fabricated), and every published
\* value that has not been copied out yet is still intact in its slot.
C1_DequeuedIsPrefixOfEnqueued ==
  /\ IsPrefix(dequeued, enqueued)
  /\ \A i \in 1 .. Len(dequeued) : dequeued[i] = i
  /\ \A k \in (nCopied + 1) .. nPublished : spsc.mDataBuffer[SlotOf(k)] = k

\* C1 witness: every slot has been reused and read again, and the last Dequeue
\* copied its slot after its head store was visible.
C1_Witness ==
  /\ Len(dequeued) > QueueSize
  /\ cons.pc = "lateCopy"
  /\ prod.pc = "publish"

\* (tail - head) mod C
Outstanding == (spsc.mTail + QueueSize - spsc.mHead) % QueueSize

\* C7: the number of outstanding messages (tail - head) mod C equals the number
\* published minus the number consumed and lies in 0 .. C-1; the buffer is empty
\* iff head = tail and holds C-1 messages iff (tail + 1) mod C = head; without a
\* Dequeue no more than C-1 Enqueue calls complete.
C7_RingBufferCapacity ==
  /\ Outstanding = nPublished - nConsumed
  /\ Outstanding \in 0 .. QueueSize - 1
  /\ (nPublished = nConsumed) <=> (spsc.mHead = spsc.mTail)
  /\ (nPublished - nConsumed = QueueSize - 1)
       <=> ((spsc.mTail + 1) % QueueSize = spsc.mHead)
  /\ (nConsumed = 0) => (nPublished <= QueueSize - 1)
  /\ Len(enqueued) = nPublished

\* C7 witness: C-1 values enqueued, none dequeued, and the next Enqueue waits.
C7_Witness ==
  /\ nConsumed = 0
  /\ nPublished = QueueSize - 1
  /\ prod.pc = "spin"
  /\ cons.pc = "idle"

\* C6: a producer waiting on a full buffer is not dropped and does not fail:
\* when the consumer keeps dequeuing, its Enqueue completes with its value
\* enqueued.
C6_BlockedProducerProceeds ==
  \A v \in 1 .. MaxEnq :
    (prod.pc = "spin" /\ prod.data = v /\ prod.nextWriteIndex = spsc.mHead)
      ~> (prod.pc = "idle" /\ Len(enqueued) >= v /\ enqueued[v] = v)

\* C6 witness: the producer waits in the loop on a full buffer.
C6_Witness ==
  /\ prod.pc = "spin"
  /\ prod.nextWriteIndex = spsc.mHead
  /\ nPublished - nConsumed = QueueSize - 1
  /\ nConsumed > 0

\* ---------------------------------------------------- claims on the logger

\* The lines of thread t in the file of logger l, in file order.
ThreadLines(l, t) == SelectSeq(sink[l], LAMBDA m : m.thr = t)

\* C2: in every logger's file the lines that originate from one thread appear
\* in the order of that thread's Log calls, whatever lies between them.
C2_PerThreadFifo ==
  \A l \in Loggers, t \in Threads :
    \A i, j \in 1 .. Len(ThreadLines(l, t)) :
      i < j => ThreadLines(l, t)[i].seq < ThreadLines(l, t)[j].seq

\* C2 witness: a file holds two lines of thread A with a line of thread B
\* between them.
C2_Witness ==
  \E l \in Loggers :
    /\ Len(sink[l]) = 3
    /\ sink[l][1].thr = "A" /\ sink[l][2].thr = "B" /\ sink[l][3].thr = "A"

\* C3: when a drain pass over a logger ends, every message logged on it whose
\* Log call had returned before the pass began is in its file.  Stated for the
\* messages of threads whose queue is registered with that logger's own manager.
C3_ReturnedMessageIsWrittenByNextPass ==
  \A e \in Executors :
    (lp[e].pc = "foreach" /\ lp[e].idx > 1) =>
      \A m \in lp[e].snap :
        tmgr[m.thr] = LoggerSeq[lp[e].idx - 1] => m \in Range(sink[LoggerSeq[lp[e].idx - 1]])

\* C4: every queue is registered with at most one logger's manager, a message
\* logged on logger l waits in a queue registered with l's manager, and it is
\* written to l's file only.
C4_MessagesStayWithTheirLogger ==
  /\ \A t \in Threads : Cardinality({l \in Loggers : t \in registered[l]}) <= 1
  /\ \A t \in Threads :
       \A k \in 1 .. Len(QContents(tq[t])) : QContents(tq[t])[k].lg = tmgr[t]
  /\ \A l \in Loggers : \A k \in 1 .. Len(sink[l]) : sink[l][k].lg = l

Count(seq, m) == Cardinality({k \in 1 .. Len(seq) : seq[k] = m})

RECURSIVE SinkCount(_, _)
SinkCount(m, n) ==
  IF n = 0 THEN 0 ELSE Count(sink[LoggerSeq[n]], m) + SinkCount(m, n - 1)

\* How often message m occurs in its thread's queue and in the files.
Occurrences(m) == Count(QContents(tq[m.thr]), m) + SinkCount(m, Len(LoggerSeq))

\* C5: a Log call with level L on a logger whose threshold, as last set by
\* SetLogLevel (INFO at first), is T enqueues its message iff L >= T in the
\* order DEBUG < INFO < ERROR < FATAL: the message of a call that passes is in
\* the thread's queue or in a file exactly once after the call returns, a call
\* with L < T leaves nothing anywhere, and nothing else is in a queue or a file.
C5_LevelFilter ==
  /\ \A t \in Threads :
       \A i \in 1 .. Len(calls[t]) :
         IF Returned(t, i)
           THEN Occurrences(CallMessage(t, i))
                  = IF calls[t][i].lvl >= calls[t][i].threshold THEN 1 ELSE 0
           ELSE /\ calls[t][i].lvl >= calls[t][i].threshold
                /\ Occurrences(CallMessage(t, i)) = 0
  /\ \A t \in Threads :
       \A k \in 1 .. Len(QContents(tq[t])) :
         LET m == QContents(tq[t])[k] IN
           m.thr = t /\ m.seq \in 1 .. Len(calls[t]) /\ m = CallMessage(t, m.seq)
  /\ \A l \in Loggers :
       \A k \in 1 .. Len(sink[l]) :
         LET m == sink[l][k] IN
           m.seq \in 1 .. Len(calls[m.thr]) /\ m = CallMessage(m.thr, m.seq)

\* C5 witness: a DEBUG call was dropped under threshold INFO, the threshold was
\* set to DEBUG, and the thread's next DEBUG call is in the file.
C5_Witness ==
  /\ Len(calls["A"]) = 2
  /\ calls["A"][1].lvl = DEBUG /\ calls["A"][1].threshold = INFO
  /\ calls["A"][2].lvl = DEBUG /\ calls["A"][2].threshold = DEBUG
  /\ sink[LoggerSeq[1]] = <<CallMessage("A", 2)>>

\* C8: UnRegisterThreadScopedQueue erases a queue from the manager's set only
\* when its ring buffer is empty.
C8_UnregisterOnlyWhenEmpty ==
  [][\A l \in Loggers, t \in Threads :
       (t \in registered[l] /\ t \notin registered'[l]) => IsEmpty(tq[t])]_vars

\* C9: once StopLogging has returned, and as long as no StartLogging has set
\* the flag again, the drain thread has left LoggingLoop and no drain pass is
\* running.
C9_NoDrainPassAfterStop ==
  (stopReturned /\ ~keepLogging) =>
    /\ lp["bg"].pc = "off"
    /\ \A e \in Executors : lp[e].pc # "drain"

\* C10: a Log call whose thread's ring buffer is not full always returns.
C10_LogCallReturns ==
  \A t \in Threads :
    (thr[t].pc \in {"getq", "enq"}
       /\ ~QueueFull(getNextIndex(tq[t].mTail), tq[t].mHead))
      ~> (thr[t].pc = "idle")

\* C16: no message is formatted and written to a logger's file while that
\* logger's manager mutex is held.
C16_NoWriteUnderManagerMutex ==
  [][\A l \in Loggers : sink'[l] # sink[l] => mLock[l] = Free]_vars

\* The drain thread has left the drain pass it is in.
PassEnded == lp["bg"].pc # "drain"

\* C20: every drain pass of the drain thread ends, whatever the producers do.
C20_EveryDrainPassEnds == (lp["bg"].pc = "drain") ~> PassEnded

\* The thread_local ThreadScopedQueue of thread t has been constructed and its
\* destructor has not finished.
QueueLive(t) == tmgr[t] # NoMgr /\ thr[t].pc # "exited"

\* C17: every queue in a manager's set is live, and the queue a drain pass is
\* visiting and the queues it has still to visit stay registered, hence live,
\* until the pass has ended, however a thread's exit interleaves with the pass.
C17_DrainerSeesLiveQueuesOnly ==
  /\ \A l \in Loggers : \A t \in registered[l] : QueueLive(t)
  /\ \A e \in Executors :
       lp[e].pc = "drain" =>
         /\ lp[e].todo \subseteq registered[LoggerSeq[lp[e].idx]]
         /\ lp[e].cur # NoThread => lp[e].cur \in registered[LoggerSeq[lp[e].idx]]

\* C17 witness: a thread is in UnRegisterThreadScopedQueue with messages left
\* while the drain pass is visiting its queue.
C17_Witness ==
  \E t \in Threads :
    /\ thr[t].pc = "unregSleep"
    /\ lp["bg"].pc = "drain"
    /\ lp["bg"].cur = t
    /\ ~IsEmpty(tq[t])

\* C18: at most one thread executes LoggingLoop at any time.
C18_AtMostOneLoggingLoop ==
  Cardinality({e \in LoopExecutors : lp[e].pc # "off"}) <= 1

\* C19: whichever threads call ConsumeAndWriteLogs, a thread that dequeues from
\* a queue holds the mutex of the manager the queue is registered with, so at
\* most one thread at a time dequeues from a given queue.
C19_SingleConsumerPerQueue ==
  /\ \A e \in Executors :
       (lp[e].pc = "drain" /\ lp[e].cur # NoThread) => mLock[tmgr[lp[e].cur]] = e
  /\ \A t \in Threads :
       Cardinality({e \in Executors : lp[e].pc = "drain" /\ lp[e].cur = t}) <= 1

\* C19 witness: the drain thread and a direct caller are in ConsumeAndWriteLogs
\* at the same time, each with a non-empty queue before it, after each of them
\* has written a message.
C19_Witness ==
  /\ lp["bg"].pc = "drain" /\ lp["bg"].cur # NoThread /\ ~IsEmpty(tq[lp["bg"].cur])
  /\ lp["dc"].pc = "drain" /\ lp["dc"].cur # NoThread /\ ~IsEmpty(tq[lp["dc"].cur])
  /\ \A l \in Loggers : Len(sink[l]) >= 1

\* ------------------------------------------- claims on LogMessage, LogFormatter

\* The last WriteLog call made.
LastSite == sites[Len(sites)]

\* The encoding of the call takes more bytes than _mDataBuffer has.
Oversized(site) == Len(Encoded(site.lvl, site.args)) > PayloadSize

\* No string argument of the call holds a '\0'.
NulFree(site) ==
  \A i \in 1 .. Len(site.args) :
    site.args[i].type \in StringTypes => StrLen(site.args[i].val) = Len(site.args[i].val)

Min(a, b) == IF a <= b THEN a ELSE b

\* The number of placeholders Format finds from index i on, left to right.
RECURSIVE CountPlaceholders(_, _)
CountPlaceholders(formatStr, i) ==
  IF i >= Len(formatStr) THEN 0
  ELSE IF formatStr[i] = LBrace /\ formatStr[i + 1] = RBrace
    THEN 1 + CountPlaceholders(formatStr, i + 2)
  ELSE CountPlaceholders(formatStr, i + 1)

\* C11: a call whose level and arguments take more than the payload capacity
\* enqueues no message and writes no byte past the slot's payload buffer.
C11_OversizedCallIsRefused ==
  (Len(sites) > 0 /\ Oversized(LastSite)) => (wpc # "queued" /\ spill = << >>)

\* C12: for a call whose string arguments hold no '\0' and whose encoding fits
\* the payload buffer, the decoder reads each argument it decodes at the offset
\* at which the encoder wrote it, consumes exactly the bytes the encoder wrote
\* for it (sizeof(T) for a scalar, the characters and one terminator for a
\* string), and gets the value and the text of the argument passed; it decodes
\* one argument for each placeholder.
C12_DecoderReadsWhatEncoderWrote ==
  (wpc = "idle" /\ Len(sites) > 0 /\ NulFree(LastSite) /\ ~Oversized(LastSite)) =>
    /\ Len(decoded) = Min(CountPlaceholders(LastSite.formatString, 1), Len(LastSite.args))
    /\ \A i \in 1 .. Len(decoded) :
         /\ decoded[i].off = WriteOffset(LastSite.args, i)
         /\ decoded[i].next - decoded[i].off = Len(CopyData(LastSite.args[i]))
         /\ decoded[i].val = LastSite.args[i].val
         /\ decoded[i].text = IF LastSite.args[i].type \in StringTypes
                                THEN Chars(LastSite.args[i].val)
                                ELSE Number(ScalarValue(LastSite.args[i].val))

\* C12 witness: a std::string followed by a scalar, both decoded.
C12_Witness ==
  /\ wpc = "idle"
  /\ Len(sites) > 0
  /\ ~Oversized(LastSite)
  /\ Len(LastSite.args) = 2
  /\ LastSite.args[1].type = "string" /\ LastSite.args[1].val = <<98>>
  /\ LastSite.args[2].type = "bool" /\ LastSite.args[2].val = <<1>>
  /\ Len(decoded) = 2
  /\ decoded[2].text = Number(1)

\* An encoding that cuts every string argument at its first '\0'.
CopyDataTruncating(arg) ==
  IF arg.type \in StringTypes
    THEN SubSeq(arg.val, 1, StrLen(arg.val)) \o <<Nul>>
    ELSE arg.val

\* C13: for a string argument, std::string or const char*, the encoder writes
\* the characters before the first '\0' and one terminator, so that the decoder
\* reads every argument at the offset at which it was written.
C13_EncoderTruncatesAtFirstNul ==
  (wpc = "idle" /\ Len(sites) > 0 /\ ~Oversized(LastSite)) =>
    /\ \A i \in 1 .. Len(LastSite.args) :
         CopyData(LastSite.args[i]) = CopyDataTruncating(LastSite.args[i])
    /\ \A i \in 1 .. Len(decoded) :
         /\ decoded[i].off = WriteOffset(LastSite.args, i)
         /\ decoded[i].next - decoded[i].off = Len(CopyData(LastSite.args[i]))

\* The format string from index i on with the texts put in place of the
\* placeholders, one after the other, as long as there are texts.
RECURSIVE Splice(_, _, _)
Splice(formatStr, i, texts) ==
  IF i > Len(formatStr) THEN << >>
  ELSE IF texts # << >> /\ i < Len(formatStr)
            /\ formatStr[i] = LBrace /\ formatStr[i + 1] = RBrace
    THEN Head(texts) \o Splice(formatStr, i + 2, Tail(texts))
  ELSE Chars(<<formatStr[i]>>) \o Splice(formatStr, i + 1, texts)

\* The line without the level.
Rendered == Tail(stream)

\* C14: the rendered text is the format string with its i-th placeholder
\* replaced by the text of the i-th decoded argument, literal segments and the
\* trailing literal unchanged; min(placeholders, arguments) arguments are
\* decoded, each with the value passed when the encoding fits the buffer, so
\* arguments beyond the placeholders are not written; with no placeholder and
\* no argument the text is the format string.
C14_FormatSplicesArguments ==
  (wpc = "idle" /\ Len(sites) > 0) =>
    /\ Rendered = Splice(LastSite.formatString, 1,
                         [i \in 1 .. Len(decoded) |-> decoded[i].text])
    /\ Len(decoded) = Min(CountPlaceholders(LastSite.formatString, 1), Len(LastSite.args))
    /\ ~Oversized(LastSite) =>
         \A i \in 1 .. Len(decoded) : decoded[i].val = LastSite.args[i].val
    /\ (LastSite.args = << >> /\ CountPlaceholders(LastSite.formatString, 1) = 0)
         => Rendered = Chars(LastSite.formatString)

\* C14 witness: "{}a{}" rendered with a scalar and a string.
C14_Witness ==
  /\ wpc = "idle"
  /\ Len(sites) > 0
  /\ LastSite.formatString = <<LBrace, RBrace, 97, LBrace, RBrace>>
  /\ Len(LastSite.args) = 2
  /\ LastSite.args[1].type = "bool"
  /\ LastSite.args[2].type = "string"
  /\ Rendered = Number(1) \o Chars(<<97, 98>>)

\* The types of the arguments of a call.
TypesOf(site) == [i \in 1 .. Len(site.args) |-> site.args[i].type]

\* C15: two calls get the same formatter handle iff their format strings are
\* equal and their arguments have the same types, and the handle in an enqueued
\* message is that of its call.
C15_SameFormatterIffSameTemplateAndTypes ==
  /\ Len(sites) = 2 =>
       ((sites[1].formatter = sites[2].formatter)
          <=> (/\ sites[1].formatString = sites[2].formatString
               /\ TypesOf(sites[1]) = TypesOf(sites[2])))
  /\ wpc = "queued" => logMessage.mFormatter = LastSite.formatter

====
